---- MODULE Spec2Model ----
(***************************************************************************)
(* Nearest-neighbour tour construction of nearestNeighbor.py:              *)
(* shortest_path_length, nearest_neighbor, solve_region and main.          *)
(*                                                                         *)
(* Python lists are sequences; Python's 0-based index i is i+1 here.       *)
(* Edge weights are naturals (the floats of the graph file, whose rounding *)
(* is not modelled).                                                       *)
(***************************************************************************)
EXTENDS Integers, Sequences, FiniteSets, TLC

\* ------------------------------------------------------------------ bounds
\* largest edge weight of the enumerated networks
MaxWeight == 2
\* longest stop list handed to nearest_neighbor
MaxStops == 3
\* most rows of data_region.csv
MaxRows == 4

\* ------------------------------------------------------------ node names
\* the literal appended at line 245
AucklandAirport == "Auckland Airport"

NodeIds == {AucklandAirport, "A", "B", "C"}

\* the names of the networks whose edges differ in weight
FewIds == {AucklandAirport, "A", "B"}

\* ---------------------------------------------------------------- graphs
\* an undirected weighted graph: nodes, edges (two-element sets of nodes)
\* and the 'weight' attribute of each edge
Pairs(N) == {e \in SUBSET N : Cardinality(e) = 2}

GraphsOn(N, weights) ==
    UNION {[nodes : {N}, edges : {E}, weight : [E -> weights]] : E \in SUBSET Pairs(N)}

\* every network of unit weights on some of the four names, and every
\* network of weights 0..MaxWeight on some of three of them
Graphs ==
    UNION ({GraphsOn(N, {1}) : N \in SUBSET NodeIds}
           \cup {GraphsOn(N, 0..MaxWeight) : N \in SUBSET FewIds})

\* the graph of the worked example of the specification, depot named D
ScenarioD ==
    [nodes |-> {"D", "A", "B"},
     edges |-> {{"D", "A"}, {"D", "B"}, {"A", "B"}},
     weight |-> ({"D", "A"} :> 5) @@ ({"D", "B"} :> 9) @@ ({"A", "B"} :> 3)]

\* the same graph with the depot named as line 245 names it
ScenarioAA ==
    [nodes |-> {AucklandAirport, "A", "B"},
     edges |-> {{AucklandAirport, "A"}, {AucklandAirport, "B"}, {"A", "B"}},
     weight |-> ({AucklandAirport, "A"} :> 5) @@ ({AucklandAirport, "B"} :> 9)
                @@ ({"A", "B"} :> 3)]

Nbrs(G, v) == {u \in G.nodes : {u, v} \in G.edges}

W(G, u, v) == G.weight[{u, v}]

SetMin(S) == CHOOSE x \in S : \A y \in S : x <= y

SetMax(S) == CHOOSE x \in S : \A y \in S : x >= y

\* a value larger than the weight of every simple path of G
Inf(G) == Cardinality(G.nodes) * SetMax({0} \cup {G.weight[e] : e \in G.edges}) + 1

\* the function f with every value computed (a function written [x \in S |-> e]
\* is otherwise evaluated anew at each application)
Table(f) == f @@ <<>>

\* ---------------------------------------------- networkx shortest paths
\* one round of edge relaxation over the tentative distances d
RelaxOnce(G, d) ==
    Table([v \in G.nodes |->
        SetMin({Inf(G), d[v]} \cup {d[u] + W(G, u, v) : u \in Nbrs(G, v)})])

RECURSIVE Relax(_, _, _)
Relax(G, d, n) == IF n = 0 THEN d ELSE Relax(G, RelaxOnce(G, d), n - 1)

\* single-source distances from a (a \in G.nodes); Inf(G) marks no path
DistFrom(G, a) ==
    Relax(G, Table([v \in G.nodes |-> IF v = a THEN 0 ELSE Inf(G)]), Cardinality(G.nodes))

Range(s) == {s[i] : i \in 1..Len(s)}

\* all simple paths of G that extend p to b
RECURSIVE SimplePaths(_, _, _)
SimplePaths(G, p, b) ==
    IF p[Len(p)] = b THEN {p}
    ELSE UNION {SimplePaths(G, Append(p, v), b) : v \in Nbrs(G, p[Len(p)]) \ Range(p)}

RECURSIVE PathWeight(_, _)
PathWeight(G, p) ==
    IF Len(p) <= 1 THEN 0
    ELSE W(G, p[1], p[2]) + PathWeight(G, Tail(p))

\* every network of the model
Networks == Graphs \cup {ScenarioD, ScenarioAA}

\* the searches, done once for every network and source
DistTable == Table([G \in Networks |-> Table([a \in G.nodes |-> DistFrom(G, a)])])

\* the exceptions a query a -> b may raise, none when it answers: networkx raises
\* NodeNotFound when a is not a node, NetworkXNoPath when b cannot be reached, and
\* one or the other, by its version, when b is not a node
QueryErrors(G, a, b) ==
    IF a \notin G.nodes THEN {"NodeNotFound"}
    ELSE IF b \notin G.nodes THEN {"NodeNotFound", "NetworkXNoPath"}
    ELSE IF DistTable[G][a][b] >= Inf(G) THEN {"NetworkXNoPath"}
    ELSE {}

\* a slip: the weight of the direct edge, where there is one, taken for the distance
ShortestDistDirectEdge(G, a, b) ==
    IF a # b /\ {a, b} \in G.edges THEN W(G, a, b) ELSE DistTable[G][a][b]

\* shortest_path_length(network, a, b, distance = True)
ShortestDist(G, a, b) == DistTable[G][a][b]

\* shortest_path_length(network, a, b, distance = False): one path of least
\* weight; which one among several is the library's choice
LeastPaths(G, a, b) ==
    LET all == SimplePaths(G, <<a>>, b)
        best == SetMin({PathWeight(G, p) : p \in all})
    IN  {p \in all : PathWeight(G, p) = best}

PathTable ==
    Table([G \in Networks |->
        Table([a \in G.nodes |-> Table([b \in G.nodes |-> LeastPaths(G, a, b)])])])

ShortestPaths(G, a, b) == PathTable[G][a][b]

\* ------------------------------------------------------- Python lists
\* list.remove(x): drops the first element equal to x
RECURSIVE Remove(_, _)
Remove(s, x) ==
    IF s = <<>> THEN <<>>
    ELSE IF s[1] = x THEN Tail(s)
    ELSE <<s[1]>> \o Remove(Tail(s), x)

\* numpy.argmin: a left-to-right scan that keeps the first least element
RECURSIVE ArgMinScan(_, _, _)
ArgMinScan(d, i, best) ==
    IF i > Len(d) THEN best
    ELSE ArgMinScan(d, i + 1, IF d[i] < d[best] THEN i ELSE best)

\* a slip: the scan keeps the last least element
RECURSIVE ArgMinLastScan(_, _, _)
ArgMinLastScan(d, i, best) ==
    IF i > Len(d) THEN best
    ELSE ArgMinLastScan(d, i + 1, IF d[i] <= d[best] THEN i ELSE best)

ArgMinLast(d) == ArgMinLastScan(d, 2, 1)

ArgMin(d) == ArgMinScan(d, 2, 1)

\* path[0:-1]
DropLast(p) == SubSeq(p, 1, Len(p) - 1)

\* [item for sublist in region_path_full for item in sublist]
RECURSIVE Flatten(_)
Flatten(ss) == IF ss = <<>> THEN <<>> ELSE ss[1] \o Flatten(Tail(ss))

RECURSIVE SeqSum(_)
SeqSum(s) == IF s = <<>> THEN 0 ELSE s[1] + SeqSum(Tail(s))

\* ------------------------------------------------------------------ main
\* the labels main searches for, in the order of lines 337-350
Searches == <<"Auckland Isthmus", "North Shore", "South Auckland", "West Auckland">>

\* the homes named by the rows of data_region.csv in the model
RowHomes == {"A", "B"}

\* the networks main may load in the model
MainNetworks == GraphsOn(FewIds, {1}) \cup GraphsOn({AucklandAirport, "A"}, {1})

\* list.index(x), 1-based: the first position of x (x occurs in s)
IndexOf(s, x) == SetMin({i \in 1..Len(s) : s[i] = x})

\* the position of the last x in s: n - region[::-1].index(search)
LastIndexOf(s, x) == SetMax({i \in 1..Len(s) : s[i] = x})

\* auk_airport + rest_homes[region.index(search) : n - region[::-1].index(search)]
RegionSlice(rws, search) ==
    LET region == [i \in 1..Len(rws) |-> rws[i][2]]
        rest_homes == [i \in 1..Len(rws) |-> rws[i][1]]
    IN  <<AucklandAirport>> \o SubSeq(rest_homes, IndexOf(region, search), LastIndexOf(region, search))

\* ----------------------------------------------------------------- state
VARIABLES
    network,          \* the graph, shared by every call
    homes,            \* the list object the caller passes (region in solve_region)
    homes_entry,      \* history: the contents of that list when the call began
    curr_node, auk_airpot, going_back,
    dist_min, path_homes, path_homes_full,
    all_dist, min_index,
    iters,            \* history: loop iterations completed
    appends,          \* history: executions of homes.append at line 245
    pc,               \* position in solve_region: "idle", "call", "loop", "done", "saved", "failed"
    err,              \* the exception that ended the program, or "none"
    flat_region_path_full,
    region_name,      \* the region solve_region works on
    saved,            \* the regions whose path file and image are written
    rows,             \* the rows of data_region.csv: <<home, region label>>
    queue,            \* main: the calls of lines 360-363 still to make
    main_pc           \* position in main: "none" (not running), "start", "solving", "done", "failed"

nn_vars == <<curr_node, auk_airpot, going_back, dist_min, path_homes, path_homes_full,
             all_dist, min_index, iters, appends>>

main_vars == <<region_name, saved, rows, queue, main_pc>>

vars == <<network, homes, homes_entry, nn_vars, pc, err, flat_region_path_full, main_vars>>

StopLists == UNION {[1..n -> NodeIds] : n \in 0..MaxStops}

\* the locals of nearest_neighbor before the call
Fresh ==
    /\ curr_node = "" /\ auk_airpot = "" /\ going_back = FALSE
    /\ dist_min = <<>> /\ path_homes = <<>> /\ path_homes_full = <<>>
    /\ all_dist = <<>> /\ min_index = 0
    /\ iters = 0 /\ appends = 0

\* solve_region(network, region, "1") is about to call nearest_neighbor
Init ==
    /\ \/ network \in Graphs /\ homes \in StopLists
       \/ network = ScenarioD /\ homes = <<"D", "A", "B">>
       \/ network = ScenarioAA /\ homes = <<AucklandAirport, "A", "B">>
    /\ homes_entry = homes
    /\ Fresh
    /\ pc = "call" /\ err = "none"
    /\ flat_region_path_full = <<>>
    /\ region_name = "1" /\ saved = {}
    /\ rows = <<>> /\ queue = <<>> /\ main_pc = "none"

\* lines 196-209: homes[0] raises IndexError on an empty list
NNCall ==
    /\ pc = "call"
    /\ IF homes = <<>>
       THEN /\ pc' = "failed" /\ err' = "IndexError"
            /\ UNCHANGED <<homes, curr_node, auk_airpot>>
       ELSE /\ curr_node' = homes[1]
            /\ homes' = Remove(homes, homes[1])
            /\ auk_airpot' = homes[1]
            /\ pc' = "loop" /\ err' = "none"
    /\ UNCHANGED <<network, homes_entry, going_back, dist_min, path_homes,
                   path_homes_full, all_dist, min_index, iters, appends,
                   flat_region_path_full, main_vars>>

\* the first index whose distance query raises, 0 when none does (lines 219-220)
FirstBad(G, a, hs) ==
    LET bad == {i \in 1..Len(hs) : QueryErrors(G, a, hs[i]) # {}}
    IN  IF bad = {} THEN 0 ELSE SetMin(bad)

\* a slip: the end node dropped from every leg, the last one too
SegmentAlwaysCut(p, n) == DropLast(p)

\* the segment logged for the leg with path p when n stops were pending (lines 231-236)
Segment(p, n) == IF n # 1 THEN DropLast(p) ELSE p

\* the node appended to close the tour (line 245)
ReturnTarget(start) == AucklandAirport

\* a slip: going_back not tested, the airport appended whenever one stop is pending
AfterAppendEveryTime(hs, gb, start) ==
    IF Len(hs) = 1 THEN Append(hs, ReturnTarget(start)) ELSE hs

\* lines 243-245
AfterAppend(hs, gb, start) ==
    IF gb = FALSE /\ Len(hs) = 1 THEN Append(hs, ReturnTarget(start)) ELSE hs

\* a slip: the loop left while one stop is still pending
LoopDoneEarly(hs) == Len(hs) <= 1

\* the test of the while loop, negated (line 212)
LoopDone(hs) == hs = <<>>

\* one pass of the while loop, lines 212-248
NNIterate ==
    /\ pc = "loop"
    /\ ~LoopDone(homes)
    /\ LET bad == FirstBad(network, curr_node, homes) IN
       IF bad # 0
       THEN /\ pc' = "failed"
            /\ err' \in QueryErrors(network, curr_node, homes[bad])
            /\ UNCHANGED <<homes, nn_vars>>
       ELSE LET ad == [i \in 1..Len(homes) |-> ShortestDist(network, curr_node, homes[i])]
                mi == ArgMin(ad)
            IN  /\ all_dist' = ad
                /\ min_index' = mi
                /\ dist_min' = Append(dist_min, ad[mi])
                /\ path_homes' = Append(path_homes, curr_node)
                /\ \E p \in ShortestPaths(network, curr_node, homes[mi]) :
                       path_homes_full' = Append(path_homes_full, Segment(p, Len(homes)))
                /\ curr_node' = homes[mi]
                /\ going_back' = (going_back \/ Len(homes) = 1)
                /\ appends' = appends + Len(AfterAppend(homes, going_back, auk_airpot)) - Len(homes)
                /\ homes' = Remove(AfterAppend(homes, going_back, auk_airpot), homes[mi])
                /\ iters' = iters + 1
                /\ pc' = "loop" /\ err' = "none"
                /\ UNCHANGED auk_airpot
    /\ UNCHANGED <<network, homes_entry, flat_region_path_full, main_vars>>

\* line 212 (the loop ends), lines 251-253
NNReturn ==
    /\ pc = "loop"
    /\ LoopDone(homes)
    /\ path_homes' = Append(path_homes, auk_airpot)
    /\ pc' = "done"
    /\ UNCHANGED <<network, homes, homes_entry, curr_node, auk_airpot, going_back,
                   dist_min, path_homes_full, all_dist, min_index, iters, appends, err,
                   flat_region_path_full, main_vars>>

\* solve_region after nearest_neighbor returned, lines 289-301
SolveRegionSave ==
    /\ pc = "done"
    /\ flat_region_path_full' = Flatten(path_homes_full)
    /\ saved' = saved \cup {region_name}
    /\ pc' = "saved"
    /\ UNCHANGED <<network, homes, homes_entry, nn_vars, err, region_name, rows, queue, main_pc>>

Next == NNCall \/ NNIterate \/ NNReturn \/ SolveRegionSave

Spec == Init /\ [][Next]_vars

\* ------------------------------------------------------- main as a whole
RowSets == UNION {[1..n -> RowHomes \X Range(Searches)] : n \in 0..MaxRows}

\* main is about to read data_region.csv and network.graphml
InitMain ==
    /\ rows \in RowSets
    /\ network \in MainNetworks
    /\ homes = <<>> /\ homes_entry = <<>>
    /\ Fresh
    /\ pc = "idle" /\ err = "none"
    /\ flat_region_path_full = <<>>
    /\ region_name = "" /\ saved = {}
    /\ queue = <<>> /\ main_pc = "start"

\* lines 321-356: list.index raises ValueError when a label does not occur (a file
\* of one row is read as a flat array, whose elements line 327 indexes as strings:
\* that raises IndexError, or ValueError at the first search)
MainPartition ==
    /\ main_pc = "start"
    /\ LET labels == {rows[i][2] : i \in 1..Len(rows)} IN
       IF \E k \in 1..Len(Searches) : Searches[k] \notin labels
       THEN /\ main_pc' = "failed"
            /\ err' \in (IF Len(rows) = 1 THEN {"ValueError", "IndexError"} ELSE {"ValueError"})
            /\ UNCHANGED queue
       ELSE /\ queue' = [k \in 1..Len(Searches) |-> RegionSlice(rows, Searches[k])]
            /\ main_pc' = "solving" /\ err' = "none"
    /\ UNCHANGED <<network, homes, homes_entry, nn_vars, pc, flat_region_path_full,
                   region_name, saved, rows>>

\* the number main gives the k-th region as its name
NameOf(k) == <<"1", "2", "3", "4">>[k]

\* lines 360-363: the next call of solve_region, made once the one before returned
MainSolve ==
    /\ main_pc = "solving"
    /\ pc \in {"idle", "saved"}
    /\ queue # <<>>
    /\ homes' = Head(queue)
    /\ homes_entry' = Head(queue)
    /\ queue' = Tail(queue)
    /\ region_name' = NameOf(Len(Searches) - Len(queue) + 1)
    /\ curr_node' = "" /\ auk_airpot' = "" /\ going_back' = FALSE
    /\ dist_min' = <<>> /\ path_homes' = <<>> /\ path_homes_full' = <<>>
    /\ all_dist' = <<>> /\ min_index' = 0
    /\ iters' = 0 /\ appends' = 0
    /\ pc' = "call"
    /\ UNCHANGED <<network, err, flat_region_path_full, saved, rows, main_pc>>

\* main returns after the last call
MainEnd ==
    /\ main_pc = "solving"
    /\ pc \in {"idle", "saved"}
    /\ queue = <<>>
    /\ main_pc' = "done"
    /\ UNCHANGED <<network, homes, homes_entry, nn_vars, pc, err, flat_region_path_full,
                   region_name, saved, rows, queue>>

NextMain ==
    MainPartition \/ MainSolve \/ MainEnd \/ NNCall \/ NNIterate \/ NNReturn \/ SolveRegionSave

SpecMain == InitMain /\ [][NextMain]_vars

\* ======================================================== the properties
Distinct(s) == \A i, j \in 1..Len(s) : i # j => s[i] # s[j]

\* every node of G reaches every other
Connected(G) == \A a, b \in G.nodes : ShortestPaths(G, a, b) # {}

Positive(G) == \A e \in G.edges : G.weight[e] > 0

\* consecutive nodes of p are joined by an edge of G
IsWalk(G, p) == \A i \in 1..(Len(p) - 1) : {p[i], p[i + 1]} \in G.edges

NoRepeat(p) == \A i \in 1..(Len(p) - 1) : p[i] # p[i + 1]

Last(s) == s[Len(s)]

\* the segments joined in order, a node that ends one leg and begins the next kept once
RECURSIVE StitchOnto(_, _)
StitchOnto(acc, ss) ==
    IF ss = <<>> THEN acc
    ELSE IF acc # <<>> /\ ss[1] # <<>> /\ Last(acc) = ss[1][1]
         THEN StitchOnto(acc \o Tail(ss[1]), Tail(ss))
         ELSE StitchOnto(acc \o ss[1], Tail(ss))

Stitched(ss) == StitchOnto(<<>>, ss)

\* the call has ended, by a return or by an exception
Ended == pc \in {"done", "failed"}

\* the precondition shared by C1, C3 and C7: a connected graph and k >= 2 distinct
\* stops, all nodes of the graph
GoodInput ==
    /\ Connected(network)
    /\ Len(homes_entry) >= 2
    /\ Distinct(homes_entry)
    /\ Range(homes_entry) \subseteq network.nodes

\* C1: on a connected graph and a list of k >= 2 distinct stops of the graph the call
\* returns visited_stops of length k+1: the depot, every other stop exactly once, the
\* depot; so the stops visited are those of the list, whatever their order.
C1_VisitsEveryStopOnce ==
    (Ended /\ GoodInput) =>
        /\ pc = "done"
        /\ Len(path_homes) = Len(homes_entry) + 1
        /\ path_homes[1] = homes_entry[1]
        /\ Last(path_homes) = homes_entry[1]
        /\ \A i \in 2..Len(homes_entry) :
               Cardinality({j \in 2..Len(homes_entry) : path_homes[j] = homes_entry[i]}) = 1
        /\ Range(path_homes) = Range(homes_entry)

\* C2: the final leg ends at the depot, the first element of the list on entry, and
\* the last distance logged is the shortest distance from the last stop to it.
C2_TourEndsAtDepot ==
    (pc = "done" /\ path_homes_full # <<>>) =>
        /\ Last(Last(path_homes_full)) = homes_entry[1]
        /\ Last(dist_min) =
               ShortestDist(network, path_homes[Len(path_homes) - 1], homes_entry[1])

\* C3: on a connected graph and k >= 2 distinct stops, the distances returned sum to
\* the weight of the stitched full path, which is a walk of the graph.
C3_SumIsStitchedLength ==
    (pc = "done" /\ GoodInput) =>
        /\ IsWalk(network, Stitched(path_homes_full))
        /\ SeqSum(dist_min) = PathWeight(network, Stitched(path_homes_full))

\* C3 witness: three distinct stops toured, the first leg through a node between
C3_Witness ==
    /\ pc = "done" /\ GoodInput
    /\ Len(homes_entry) = 3
    /\ Len(path_homes_full[1]) >= 2
    /\ SeqSum(dist_min) > 0

\* the example of the specification, under either name of the depot
ScenarioNamedD == network = ScenarioD /\ homes_entry = <<"D", "A", "B">>

ScenarioNamedAA == network = ScenarioAA /\ homes_entry = <<AucklandAirport, "A", "B">>

\* C4 as stated: the example yields visited_stops [D, A, B, D] and distances
\* [5, 3, 9], 17 in all.
C4_Original ==
    (pc = "done" /\ (ScenarioNamedD \/ ScenarioNamedAA)) =>
        /\ path_homes = <<homes_entry[1], "A", "B", homes_entry[1]>>
        /\ dist_min = <<5, 3, 9>>
        /\ SeqSum(dist_min) = 17

\* C4 as amended: with the depot named Auckland Airport the example yields
\* visited_stops [D, A, B, D] and distances [5, 3, 8], 16 in all (the way back runs
\* through A); with the depot named D the call fails on the query for the node
\* Auckland Airport, which the graph lacks, once [5, 3] are logged.
C4_Scenario ==
    /\ (Ended /\ ScenarioNamedAA) =>
           /\ pc = "done"
           /\ path_homes = <<AucklandAirport, "A", "B", AucklandAirport>>
           /\ dist_min = <<5, 3, 8>>
           /\ SeqSum(dist_min) = 16
    /\ (Ended /\ ScenarioNamedD) =>
           /\ pc = "failed" /\ err \in {"NodeNotFound", "NetworkXNoPath"}
           /\ curr_node = "B" /\ AucklandAirport \notin network.nodes
           /\ dist_min = <<5, 3>>

\* C4 witness: the example has run to its return
C4_Witness == pc = "done" /\ ScenarioNamedAA /\ Len(dist_min) = 3

\* C5: a list of fewer than two stops makes the call fail with EmptyStopList (or, the
\* list being empty, with Python's IndexError) and return no tour.
C5_EmptyStopList ==
    (Ended /\ Len(homes_entry) < 2) =>
        (pc = "failed" /\ err \in {"EmptyStopList", "IndexError"})

\* the k-th region of main has an input of its own that can be toured
RegionValid(k) ==
    /\ \E i \in 1..Len(rows) : rows[i][2] = Searches[k]
    /\ LET stops == Range(RegionSlice(rows, Searches[k]))
       IN  /\ stops \subseteq network.nodes
           /\ \A a, b \in stops : ShortestPaths(network, a, b) # {}

\* main has ended, by returning or by an exception
MainEnded == main_pc \in {"done", "failed"} \/ pc = "failed"

\* every label main searches for occurs in the rows
AllLabelsOccur ==
    \A k \in 1..Len(Searches) : \E i \in 1..Len(rows) : rows[i][2] = Searches[k]

\* C6: when main has ended on rows that hold every region, every region whose own
\* input is valid has its tour saved, whatever became of the tours of the other regions.
C6_RegionsIndependent ==
    (MainEnded /\ AllLabelsOccur) =>
        \A k \in 1..Len(Searches) : RegionValid(k) => NameOf(k) \in saved

\* C7: on positive weights and k >= 2 distinct stops the flat path solve_region
\* builds never holds a node twice in a row and is a walk from the depot to the depot.
C7_NoDuplicateJunction ==
    (pc = "saved" /\ GoodInput /\ Positive(network)) =>
        /\ NoRepeat(flat_region_path_full)
        /\ IsWalk(network, flat_region_path_full)
        /\ flat_region_path_full[1] = homes_entry[1]
        /\ Last(flat_region_path_full) = homes_entry[1]

\* C8 as stated: when the call has ended the caller's list holds what it held on entry.
C8_Original == Ended => homes = homes_entry

\* C8 as amended: the stops are removed from the caller's own list: it is empty when
\* the call returns, and when the call fails it holds what is still pending, one
\* element fewer per pass and for the first stop, one more once line 245 has run;
\* no step changes the graph.
C8_CallerListConsumed ==
    /\ [](pc = "done" => (homes = <<>> /\ homes_entry # <<>>))
    /\ []((pc = "failed" /\ homes_entry # <<>>) =>
              Len(homes) = Len(homes_entry) - 1 - iters + appends)
    /\ [][network' = network]_vars

\* C8 witness: a call that was given three stops has returned, its list empty
C8_Witness == pc = "done" /\ Len(homes_entry) = 3 /\ homes = <<>>

\* C9: each pass selects a pending stop at least distance from the current node, the
\* first such stop in pending order, and logs that distance.
C9_FirstNearestSelected ==
    [][(pc = "loop" /\ iters' = iters + 1) =>
          /\ min_index' \in 1..Len(homes)
          /\ curr_node' = homes[min_index']
          /\ Last(dist_min') = ShortestDist(network, curr_node, curr_node')
          /\ \A j \in 1..Len(homes) :
                 /\ ShortestDist(network, curr_node, curr_node')
                        <= ShortestDist(network, curr_node, homes[j])
                 /\ j < min_index' =>
                        ShortestDist(network, curr_node, curr_node')
                            < ShortestDist(network, curr_node, homes[j])]_vars

\* C9 witness: a pass chose between two pending stops equally near, at a distance
\* above zero, and took the first
C9_Witness ==
    /\ iters > 0
    /\ Len(all_dist) = 2
    /\ min_index = 1
    /\ all_dist[2] = all_dist[1]
    /\ all_dist[1] > 0

\* every node the call queries is a node of the graph, and each reaches each
QueriedReachable ==
    LET queried == Range(homes_entry) \cup {AucklandAirport}
    IN  /\ queried \subseteq network.nodes
        /\ \A a, b \in queried : ShortestPaths(network, a, b) # {}

====
